---- MODULE Spec2Model ----
(***************************************************************************)
(* Pool protection state machine of programs/hoe-dex-protection.           *)
(*                                                                         *)
(* One PoolState record (lib.rs, struct PoolState) is mutated by the       *)
(* instruction handlers of lib.rs.  Every handler is one atomic step: the  *)
(* runtime commits its writes when it returns Ok and discards them when it *)
(* returns an error.  The handlers are modelled as operators               *)
(*     handler(p, caller, args, t)  ->  [err, pool]                        *)
(* computed in the order of the code (guards first, then assignments);     *)
(* the actions apply them to the pool at the current clock value.          *)
(*                                                                         *)
(* Fields of PoolState that no handler reads (version, migration_flag,     *)
(* is_initialized, token_mint, token_decimals, last_update,                *)
(* last_fee_withdrawal, instruction_counter, bump, pool_id) are left out.  *)
(***************************************************************************)
EXTENDS Integers, Sequences, FiniteSets, TLC

VARIABLES pool, now, last, hist

vars == <<pool, now, last, hist>>

---------------------------------------------------------------------------
(* Program constants (constants.rs)                                        *)

MINIMUM_FEE_BPS == 1
MINIMUM_FEE == 1
EMERGENCY_TIMELOCK_SECONDS == 3600
PARAMETER_UPDATE_TIMELOCK == 86400
ADMIN_UPDATE_COOLDOWN == 86400
MAX_FEE_TIERS == 100
MAX_BLACKLIST_SIZE == 1000
BATCH_BLACKLIST_MAX_SIZE == 50

(* MAXIMUM_FEE_BPS is used by PoolState::validate_fee_tiers but defined    *)
(* nowhere under src/; 10000 bps = 100% is the ceiling the glossary gives. *)
MAXIMUM_FEE_BPS == 10000

---------------------------------------------------------------------------
(* Bounds of the model                                                     *)

\* Clock value at initialize_pool (any positive unix timestamp).
StartTime == 1000000
\* Cap on total_liquidity: deposits and trades beyond it are not explored.
MaxLiquidity == 2000
\* Cap on the number of committed (successful) instructions of a run.
MaxCalls == 3

\* Identities that sign transactions.  "A" signs initialize_pool.
Users == {"A", "B", "C"}

\* Instants (seconds after StartTime) at which transactions land: the
\* boundaries of the one-hour and 24-hour timelocks, one second before and
\* one second after.
TimeOffsets ==
  { 0,
    EMERGENCY_TIMELOCK_SECONDS - 1, EMERGENCY_TIMELOCK_SECONDS,
    PARAMETER_UPDATE_TIMELOCK - 1, PARAMETER_UPDATE_TIMELOCK }

TimePoints == { StartTime + o : o \in TimeOffsets }

---------------------------------------------------------------------------
(* Option<T>: None is the empty tuple, Some(x) the one-element tuple.      *)

None == << >>
Some(x) == << x >>
is_some(o) == o # None
unwrap(o) == o[1]

\* Result of a handler: the error code ("Ok" on success) and the pool the
\* runtime commits.
Ok(p) == [err |-> "Ok", pool |-> p]
Fail(p, e) == [err |-> e, pool |-> p]

---------------------------------------------------------------------------
(* Parameters of initialize_pool and the state it builds                   *)

InitParams ==
  [ early_trade_fee_bps        |-> 500,
    early_trade_window_seconds |-> 300,
    max_trade_size_bps         |-> 1000,
    min_trade_size             |-> 100,
    cooldown_seconds           |-> 60,
    max_daily_volume           |-> 5000,
    max_price_impact_bps       |-> 10000,
    circuit_breaker_threshold  |-> 3000,
    circuit_breaker_window     |-> 3600,
    circuit_breaker_cooldown   |-> 3600,
    rate_limit_window          |-> 3600,
    rate_limit_max             |-> 2,
    fee_tiers |-> << [volume_threshold |-> 1000, fee_bps |-> 100],
                     [volume_threshold |-> 2000, fee_bps |-> 50] >> ]

initialize_pool(admin, q, t) ==
  [ admin                |-> admin,
    emergency_admin      |-> admin,
    total_fees_collected |-> 0,
    total_liquidity      |-> 0,
    is_paused            |-> FALSE,
    is_emergency_paused  |-> FALSE,
    is_finalized         |-> FALSE,
    pool_start_time      |-> t,
    last_admin_update    |-> t,
    emergency_action_scheduled_time |-> 0,
    pending_update       |-> None,
    trade_settings |->
      [ max_size_bps               |-> q.max_trade_size_bps,
        min_size                   |-> q.min_trade_size,
        cooldown_seconds           |-> q.cooldown_seconds,
        last_trade_time            |-> 0,
        early_trade_fee_bps        |-> q.early_trade_fee_bps,
        early_trade_window_seconds |-> q.early_trade_window_seconds ],
    rate_limit |->
      [ window_seconds |-> q.rate_limit_window,
        count          |-> 0,
        max_calls      |-> q.rate_limit_max,
        last_reset     |-> t ],
    circuit_breaker |->
      [ enabled      |-> TRUE,
        threshold    |-> q.circuit_breaker_threshold,
        window       |-> q.circuit_breaker_window,
        cooldown     |-> q.circuit_breaker_cooldown,
        last_trigger |-> 0 ],
    volume |->
      [ daily_limit    |-> q.max_daily_volume,
        current_volume |-> 0,
        last_reset     |-> t,
        decay_rate     |-> 0 ],
    protection |->
      [ enabled           |-> TRUE,
        min_liquidity     |-> 0,
        max_price_impact  |-> q.max_price_impact_bps,
        max_slippage      |-> 0,
        blacklist_enabled |-> FALSE ],
    fee_tiers        |-> q.fee_tiers,
    fee_tiers_locked |-> FALSE,
    default_fee_bps  |-> None,
    trader_blacklist |-> {},
    \* the flag of ReentrancyGuard, which the design keeps with the pool
    \* (PoolState as declared has no such field)
    is_locked        |-> FALSE ]

---------------------------------------------------------------------------
(* Guards shared by the handlers                                           *)

\* A variant of validate_admin_action without the test of is_emergency_paused.
validate_admin_action_ignoring_emergency(p, admin, t) ==
  IF p.admin # admin THEN "Unauthorized"
  ELSE IF ~(t > 0) THEN "InvalidTimestamp"
  ELSE "Ok"

\* validation.rs: the three require! in order; "Ok" when all pass.
validate_admin_action(p, admin, t) ==
  IF p.admin # admin THEN "Unauthorized"
  ELSE IF p.is_emergency_paused THEN "EmergencyPaused"
  ELSE IF ~(t > 0) THEN "InvalidTimestamp"
  ELSE "Ok"

\* validate_parameter!(value, min, max, err): the value lies in [min, max].
validate_parameter(value, lo, hi) == lo <= value /\ value <= hi

\* PoolState::validate_fee_tiers: the loop over the tiers from index i on,
\* carrying prev_threshold and prev_fee.
RECURSIVE validate_fee_tiers_from(_, _, _, _)
validate_fee_tiers_from(tiers, i, prev_threshold, prev_fee) ==
  IF i > Len(tiers) THEN "Ok"
  ELSE LET tier == tiers[i] IN
    IF tier.volume_threshold <= prev_threshold THEN "InvalidFeeTierSpacing"
    ELSE IF tier.fee_bps < MINIMUM_FEE_BPS THEN "FeeTooLow"
    ELSE IF tier.fee_bps > MAXIMUM_FEE_BPS THEN "FeeTooHigh"
    ELSE IF tier.fee_bps > prev_fee THEN "InvalidFeeTier"
    ELSE IF tier.fee_bps = prev_fee THEN "DuplicateFeeTierThreshold"
    ELSE validate_fee_tiers_from(tiers, i + 1, tier.volume_threshold, tier.fee_bps)

validate_fee_tiers(tiers) ==
  IF Len(tiers) = 0 THEN "InvalidFeeTier"
  ELSE IF Len(tiers) > MAX_FEE_TIERS THEN "TooManyFeeTiers"
  ELSE validate_fee_tiers_from(tiers, 1, 0, MAXIMUM_FEE_BPS + 1)

\* validation::validate_fee_parameters forwards to the pool's validation of
\* the submitted tiers.
validate_fee_parameters(p, tiers) == validate_fee_tiers(tiers)

MIN_FEE_TIER_SPACING_BPS == 10

\* MAX_TIER_FEE_BPS is used by the module-level validate_fee_tiers and
\* defined nowhere under src/; it is taken to be the fee ceiling.
MAX_TIER_FEE_BPS == MAXIMUM_FEE_BPS

\* The validate_fee_tiers that initialize_pool calls (the function of the
\* program module, not the method of PoolState): distinct thresholds, each
\* fee within [MINIMUM_FEE, MAX_TIER_FEE_BPS], consecutive thresholds at
\* least MIN_FEE_TIER_SPACING_BPS apart.  It does not look at the order of
\* the fees.  The two loops stop at their first failing index.
utils_validate_fee_tiers(tiers) ==
  LET n == Len(tiers)
      fee_err(i) == IF tiers[i].fee_bps < MINIMUM_FEE THEN "FeeTooLow"
                    ELSE IF tiers[i].fee_bps > MAX_TIER_FEE_BPS THEN "FeeTooHigh"
                    ELSE "Ok"
      spacing(i) == tiers[i].volume_threshold - tiers[i - 1].volume_threshold
      spacing_err(i) == IF spacing(i) < 0 THEN "Overflow"
                        ELSE IF spacing(i) < MIN_FEE_TIER_SPACING_BPS
                          THEN "InvalidFeeTierSpacing"
                        ELSE "Ok"
      bad_fee == { i \in 1..n : fee_err(i) # "Ok" }
      bad_spacing == { i \in 2..n : spacing_err(i) # "Ok" }
      first(S) == CHOOSE i \in S : \A j \in S : i <= j
  IN IF n = 0 THEN "InvalidFeeTier"
     ELSE IF n > MAX_FEE_TIERS THEN "TooManyFeeTiers"
     ELSE IF Cardinality({ tiers[i].volume_threshold : i \in 1..n }) # n
       THEN "DuplicateFeeTierThreshold"
     ELSE IF bad_fee # {} THEN fee_err(first(bad_fee))
     ELSE IF bad_spacing # {} THEN spacing_err(first(bad_spacing))
     ELSE "Ok"

\* initialize_pool, "Validate fee tiers": the error that stops the
\* initialisation with parameters q, "Ok" when it goes through.
initialize_pool_checks(q) == utils_validate_fee_tiers(q.fee_tiers)

---------------------------------------------------------------------------
(* Parameter bundles submitted to schedule_parameter_update                *)

TradeUpd ==
  [ early_trade_fee_bps |-> 300, early_trade_window_seconds |-> 600,
    max_trade_size_bps |-> 500, min_trade_size |-> 50, cooldown_seconds |-> 30 ]

\* max_trade_size_bps below min_trade_size: rejected by the schedule call.
TradeUpdBad == [TradeUpd EXCEPT !.max_trade_size_bps = 10]

ProtUpd ==
  [ max_daily_volume |-> 500, max_price_impact_bps |-> 500,
    max_slippage |-> 100, blacklist_enabled |-> TRUE,
    circuit_breaker_threshold |-> 2000, circuit_breaker_window |-> 1800,
    circuit_breaker_cooldown |-> 3600,
    rate_limit_window |-> 1800, rate_limit_max |-> 1 ]

\* An empty fee_tiers stands for "no new tiers" (the apply step skips it).
FeeUpd ==
  [ fee_tiers |-> << [volume_threshold |-> 500, fee_bps |-> 200] >>,
    fee_tiers_locked |-> FALSE ]

FeeUpdLock == [ fee_tiers |-> << >>, fee_tiers_locked |-> TRUE ]

StateUpdPause == [ is_paused |-> TRUE, is_emergency_paused |-> FALSE ]
StateUpdEmergency == [ is_paused |-> FALSE, is_emergency_paused |-> TRUE ]

Bundle(ts, ps, fs, ss) ==
  [ trade_settings |-> ts, protection_settings |-> ps,
    fee_settings |-> fs, state_settings |-> ss ]

NoBundle == Bundle(None, None, None, None)

Bundles ==
  { NoBundle,
    Bundle(Some(TradeUpd), None, None, None),
    Bundle(Some(TradeUpdBad), None, None, None),
    Bundle(None, Some(ProtUpd), None, None),
    Bundle(None, None, Some(FeeUpd), Some(StateUpdPause)),
    Bundle(None, None, Some(FeeUpdLock), None),
    Bundle(None, None, None, Some(StateUpdEmergency)) }

---------------------------------------------------------------------------
(* Parameter-update timelock: schedule, cancel, apply                      *)

PendingUpdate(scheduled_time, b) ==
  [ scheduled_time      |-> scheduled_time,
    trade_settings      |-> b.trade_settings,
    protection_settings |-> b.protection_settings,
    fee_settings        |-> b.fee_settings,
    state_settings      |-> b.state_settings ]

\* The validation of the submitted sub-bundles, in the order of the code.
\* The upper bound u64::MAX of the trade check holds of every u64.
validate_bundle(p, b) ==
  IF is_some(b.trade_settings)
     /\ ~(unwrap(b.trade_settings).min_trade_size
            <= unwrap(b.trade_settings).max_trade_size_bps)
    THEN "InvalidParameterRelationship"
  ELSE IF is_some(b.protection_settings)
     /\ ~validate_parameter(unwrap(b.protection_settings).max_price_impact_bps,
                            0, 10000)
    THEN "PriceImpactTooHigh"
  ELSE IF is_some(b.fee_settings)
     /\ Len(unwrap(b.fee_settings).fee_tiers) > 0
    THEN validate_fee_parameters(p, unwrap(b.fee_settings).fee_tiers)
  ELSE "Ok"

\* Variants of schedule_parameter_update that the properties must tell
\* from it: one stores the bundle with no delay, one keeps the fields of
\* the update it replaces where the new bundle has none.
schedule_without_delay(p, admin, b, t) ==
  LET a == validate_admin_action(p, admin, t)
      v == validate_bundle(p, b)
  IN IF a # "Ok" THEN Fail(p, a)
     ELSE IF v # "Ok" THEN Fail(p, v)
     ELSE Ok([p EXCEPT !.pending_update = Some(PendingUpdate(t, b))])

schedule_merging(p, admin, b, t) ==
  LET a == validate_admin_action(p, admin, t)
      v == validate_bundle(p, b)
      old == IF is_some(p.pending_update) THEN unwrap(p.pending_update)
             ELSE PendingUpdate(0, NoBundle)
      keep(new, prev) == IF is_some(new) THEN new ELSE prev
      m == [ trade_settings      |-> keep(b.trade_settings, old.trade_settings),
             protection_settings |-> keep(b.protection_settings, old.protection_settings),
             fee_settings        |-> keep(b.fee_settings, old.fee_settings),
             state_settings      |-> keep(b.state_settings, old.state_settings) ]
  IN IF a # "Ok" THEN Fail(p, a)
     ELSE IF v # "Ok" THEN Fail(p, v)
     ELSE Ok([p EXCEPT !.pending_update =
                 Some(PendingUpdate(t + PARAMETER_UPDATE_TIMELOCK, m))])

schedule_parameter_update(p, admin, b, t) ==
  LET a == validate_admin_action(p, admin, t)
      v == validate_bundle(p, b)
  IN IF a # "Ok" THEN Fail(p, a)
     ELSE IF v # "Ok" THEN Fail(p, v)
     ELSE Ok([p EXCEPT !.pending_update =
                 Some(PendingUpdate(t + PARAMETER_UPDATE_TIMELOCK, b))])

\* A variant of cancel_parameter_update that reports success and keeps the
\* pending update.
cancel_keeping(p, admin, t) ==
  LET a == validate_admin_action(p, admin, t)
  IN IF a # "Ok" THEN Fail(p, a)
     ELSE IF ~is_some(p.pending_update) THEN Fail(p, "NoPendingUpdate")
     ELSE Ok(p)

cancel_parameter_update(p, admin, t) ==
  LET a == validate_admin_action(p, admin, t)
  IN IF a # "Ok" THEN Fail(p, a)
     ELSE IF ~is_some(p.pending_update) THEN Fail(p, "NoPendingUpdate")
     ELSE Ok([p EXCEPT !.pending_update = None])

reset_pending_update(p, admin, t) ==
  LET a == validate_admin_action(p, admin, t)
  IN IF a # "Ok" THEN Fail(p, a)
     ELSE IF ~is_some(p.pending_update) THEN Fail(p, "NoPendingUpdate")
     ELSE Ok([p EXCEPT !.pending_update = None])

\* The four "if let Some(..)" blocks of apply_parameter_update.
apply_trade_settings(p, o) ==
  IF ~is_some(o) THEN p
  ELSE LET s == unwrap(o) IN
    [p EXCEPT !.trade_settings.early_trade_fee_bps = s.early_trade_fee_bps,
              !.trade_settings.early_trade_window_seconds = s.early_trade_window_seconds,
              !.trade_settings.max_size_bps = s.max_trade_size_bps,
              !.trade_settings.min_size = s.min_trade_size,
              !.trade_settings.cooldown_seconds = s.cooldown_seconds]

apply_protection_settings(p, o) ==
  IF ~is_some(o) THEN p
  ELSE LET s == unwrap(o) IN
    [p EXCEPT !.volume.daily_limit = s.max_daily_volume,
              !.protection.max_price_impact = s.max_price_impact_bps,
              !.protection.max_slippage = s.max_slippage,
              !.protection.blacklist_enabled = s.blacklist_enabled,
              !.circuit_breaker.threshold = s.circuit_breaker_threshold,
              !.circuit_breaker.window = s.circuit_breaker_window,
              !.circuit_breaker.cooldown = s.circuit_breaker_cooldown,
              !.rate_limit.window_seconds = s.rate_limit_window,
              !.rate_limit.max_calls = s.rate_limit_max]

apply_fee_settings(p, o) ==
  IF ~is_some(o) THEN p
  ELSE LET s == unwrap(o) IN
    [p EXCEPT !.fee_tiers = IF Len(s.fee_tiers) > 0 THEN s.fee_tiers ELSE @,
              !.fee_tiers_locked = s.fee_tiers_locked]

apply_state_settings(p, o) ==
  IF ~is_some(o) THEN p
  ELSE LET s == unwrap(o) IN
    [p EXCEPT !.is_paused = s.is_paused,
              !.is_emergency_paused = s.is_emergency_paused]

\* A variant of the timelock test that is late by one second.
timelock_expired_strictly(t, scheduled_time) == t > scheduled_time

\* The timelock test of apply_parameter_update.
timelock_expired(t, scheduled_time) == t >= scheduled_time

apply_parameter_update(p, admin, t) ==
  LET a == validate_admin_action(p, admin, t)
  IN IF a # "Ok" THEN Fail(p, a)
     ELSE IF ~is_some(p.pending_update) THEN Fail(p, "NoPendingUpdate")
     ELSE LET u == unwrap(p.pending_update) IN
       IF ~timelock_expired(t, u.scheduled_time)
         THEN Fail(p, "TimelockNotExpired")
       ELSE LET p1 == apply_trade_settings(p, u.trade_settings)
                p2 == apply_protection_settings(p1, u.protection_settings)
                p3 == apply_fee_settings(p2, u.fee_settings)
                p4 == apply_state_settings(p3, u.state_settings)
            IN Ok([p4 EXCEPT !.pending_update = None])

---------------------------------------------------------------------------
(* Emergency pause timelock                                                *)

schedule_emergency_pause(p, emergency_admin, t) ==
  IF emergency_admin # p.emergency_admin THEN Fail(p, "InvalidEmergencyAdmin")
  ELSE IF p.is_emergency_paused THEN Fail(p, "EmergencyPaused")
  ELSE Ok([p EXCEPT !.emergency_action_scheduled_time =
                       t + EMERGENCY_TIMELOCK_SECONDS])

apply_emergency_pause(p, emergency_admin, t) ==
  IF emergency_admin # p.emergency_admin THEN Fail(p, "InvalidEmergencyAdmin")
  ELSE IF ~(t >= p.emergency_action_scheduled_time)
    THEN Fail(p, "TimelockNotExpired")
  ELSE Ok([p EXCEPT !.is_emergency_paused = TRUE])

schedule_emergency_resume(p, emergency_admin, t) ==
  IF emergency_admin # p.emergency_admin THEN Fail(p, "InvalidEmergencyAdmin")
  ELSE IF ~p.is_emergency_paused THEN Fail(p, "PoolNotPaused")
  ELSE Ok([p EXCEPT !.emergency_action_scheduled_time =
                       t + EMERGENCY_TIMELOCK_SECONDS])

apply_emergency_resume(p, emergency_admin, t) ==
  IF emergency_admin # p.emergency_admin THEN Fail(p, "InvalidEmergencyAdmin")
  ELSE IF ~(t >= p.emergency_action_scheduled_time)
    THEN Fail(p, "TimelockNotExpired")
  ELSE Ok([p EXCEPT !.is_emergency_paused = FALSE])

---------------------------------------------------------------------------
(* Admin operations                                                        *)

reset_circuit_breaker(p, admin, t) ==
  LET a == validate_admin_action(p, admin, t)
  IN IF a # "Ok" THEN Fail(p, a)
     ELSE IF ~(t >= p.circuit_breaker.last_trigger + p.circuit_breaker.cooldown)
       THEN Fail(p, "CircuitBreakerCooldown")
     ELSE Ok([p EXCEPT !.circuit_breaker.last_trigger = 0])

update_admin(p, admin, new_admin, t) ==
  LET a == validate_admin_action(p, admin, t)
  IN IF a # "Ok" THEN Fail(p, a)
     ELSE IF ~(new_admin # p.admin /\ new_admin # p.emergency_admin)
       THEN Fail(p, "InvalidNewAdmin")
     ELSE Ok([p EXCEPT !.admin = new_admin, !.last_admin_update = t])

toggle_pause(p, admin, t) ==
  LET a == validate_admin_action(p, admin, t)
  IN IF a # "Ok" THEN Fail(p, a)
     ELSE Ok([p EXCEPT !.is_paused = ~p.is_paused])

lock_fee_tiers(p, admin, t) ==
  LET a == validate_admin_action(p, admin, t)
  IN IF a # "Ok" THEN Fail(p, a)
     ELSE IF p.fee_tiers_locked THEN Fail(p, "FeeTiersLocked")
     ELSE Ok([p EXCEPT !.fee_tiers_locked = TRUE])

unlock_fee_tiers(p, admin, t) ==
  LET a == validate_admin_action(p, admin, t)
  IN IF a # "Ok" THEN Fail(p, a)
     ELSE IF ~p.fee_tiers_locked THEN Fail(p, "FeeTiersNotLocked")
     ELSE Ok([p EXCEPT !.fee_tiers_locked = FALSE])

\* A variant of token_transfer whose caller goes on whatever the token
\* program answered.
token_transfer_unchecked(transfer_ok) == "Ok"

\* token::transfer(..)?: the token transfer is an external call that either
\* completes (transfer_ok) or hands back the error that ends the
\* instruction.
token_transfer(transfer_ok) == IF transfer_ok THEN "Ok" ELSE "TransferFailed"

\* A completed transfer of amount tokens between two token accounts.
Transfer(from, to, amount) == [from |-> from, to |-> to, amount |-> amount]

\* The transfers that the result r of an instruction commits: those of a
\* failed instruction are undone with its writes.
Transfers(r) == IF "transfers" \in DOMAIN r THEN r.transfers ELSE << >>

add_liquidity(p, admin, amount, transfer_ok, t) ==
  LET a == validate_admin_action(p, admin, t)
  IN IF a # "Ok" THEN Fail(p, a)
     ELSE IF amount = 0 THEN Fail(p, "InvalidAmount")
     ELSE IF token_transfer(transfer_ok) # "Ok"
       THEN Fail(p, token_transfer(transfer_ok))
     ELSE [ err |-> "Ok",
            pool |-> [p EXCEPT !.total_liquidity = @ + amount,
                               !.last_admin_update = t],
            transfers |-> << Transfer(admin, "pool_token_account", amount) >> ]

remove_liquidity(p, admin, amount, t) ==
  LET a == validate_admin_action(p, admin, t)
  IN IF a # "Ok" THEN Fail(p, a)
     ELSE IF amount = 0 THEN Fail(p, "InvalidAmount")
     ELSE IF amount > p.total_liquidity THEN Fail(p, "InsufficientLiquidity")
     ELSE Ok([p EXCEPT !.total_liquidity = @ - amount,
                       !.last_admin_update = t])

withdraw_fees(p, admin, transfer_ok, t) ==
  LET a == validate_admin_action(p, admin, t)
  IN IF a # "Ok" THEN Fail(p, a)
     ELSE IF ~(p.total_fees_collected > 0) THEN Fail(p, "NoFeesAvailable")
     ELSE IF token_transfer(transfer_ok) # "Ok"
       THEN Fail(p, token_transfer(transfer_ok))
     ELSE [ err |-> "Ok",
            pool |-> [p EXCEPT !.total_fees_collected = 0],
            transfers |-> << Transfer("pool_token_account", admin,
                                      p.total_fees_collected) >> ]

---------------------------------------------------------------------------
(* Blacklist                                                               *)

\* The addresses of a submitted list.
Range(traders) == { traders[i] : i \in DOMAIN traders }

\* A variant of process_blacklist_operations whose test of the total size
\* looks at the stored members only.
process_blacklist_size_before(p, traders, operation) ==
  IF ~p.protection.blacklist_enabled THEN Fail(p, "Unauthorized")
  ELSE IF ~(Len(traders) <= BATCH_BLACKLIST_MAX_SIZE)
    THEN Fail(p, "TooManyFeeTiers")
  ELSE IF operation = "Add"
    THEN IF ~(Cardinality(p.trader_blacklist) <= MAX_BLACKLIST_SIZE)
           THEN Fail(p, "TooManyFeeTiers")
           ELSE Ok([p EXCEPT !.trader_blacklist = @ \cup Range(traders)])
  ELSE Ok([p EXCEPT !.trader_blacklist = @ \ Range(traders)])

\* utils.rs: traders is the submitted list of addresses (a Vec: its length
\* counts repeated addresses), the blacklist a set; the signer of the
\* instruction is not an argument.
process_blacklist_operations(p, traders, operation) ==
  IF ~p.protection.blacklist_enabled THEN Fail(p, "Unauthorized")
  ELSE IF ~(Len(traders) <= BATCH_BLACKLIST_MAX_SIZE)
    THEN Fail(p, "TooManyFeeTiers")
  ELSE IF operation = "Add"
    THEN IF ~(Cardinality(p.trader_blacklist) + Len(traders)
                <= MAX_BLACKLIST_SIZE)
           THEN Fail(p, "TooManyFeeTiers")
           ELSE Ok([p EXCEPT !.trader_blacklist = @ \cup Range(traders)])
  ELSE Ok([p EXCEPT !.trader_blacklist = @ \ Range(traders)])

\* ReentrancyGuard::new, as the design describes the guard: entry requires
\* the flag clear and sets it.
ReentrancyGuard_new(p) ==
  IF p.is_locked THEN Fail(p, "ReentrancyDetected")
  ELSE Ok([p EXCEPT !.is_locked = TRUE])

\* The guard going out of scope at the exit of the instruction, with the
\* result r of its body: the flag is clear again.
ReentrancyGuard_drop(r) == [r EXCEPT !.pool.is_locked = FALSE]

blacklist_trader(p, admin, trader, t) ==
  LET g == ReentrancyGuard_new(p)
  IN IF g.err # "Ok" THEN g
     ELSE ReentrancyGuard_drop(
            process_blacklist_operations(g.pool, << trader >>, "Add"))

remove_from_blacklist(p, admin, trader, t) ==
  LET g == ReentrancyGuard_new(p)
  IN IF g.err # "Ok" THEN g
     ELSE ReentrancyGuard_drop(
            process_blacklist_operations(g.pool, << trader >>, "Remove"))

batch_blacklist_traders(p, admin, traders, t) ==
  process_blacklist_operations(p, traders, "Add")

batch_unblacklist_traders(p, admin, traders, t) ==
  process_blacklist_operations(p, traders, "Remove")

---------------------------------------------------------------------------
(* Trading                                                                 *)

Min(a, b) == IF a <= b THEN a ELSE b

\* A variant of decay_volume that counts a started hour as a whole one.
decay_volume_rounding_up(p, t) ==
  IF t < p.volume.last_reset THEN Fail(p, "InvalidTimestamp")
  ELSE LET hours_passed == (t - p.volume.last_reset + 3599) \div 3600
           decay_factor == 100 - Min(hours_passed, 24)
           new_volume == (p.volume.current_volume * decay_factor) \div 100
       IN IF hours_passed > 0
            THEN Ok([p EXCEPT !.volume.current_volume = new_volume,
                              !.volume.last_reset = t])
            ELSE Ok(p)

\* PoolState::decay_volume: one per cent of the tracked volume per whole
\* hour since last_reset, at most 24; nothing within the hour.  No handler
\* calls it.
decay_volume(p, t) ==
  IF t < p.volume.last_reset THEN Fail(p, "InvalidTimestamp")
  ELSE LET hours_passed == (t - p.volume.last_reset) \div 3600
           decay_factor == 100 - Min(hours_passed, 24)
           new_volume == (p.volume.current_volume * decay_factor) \div 100
       IN IF hours_passed > 0
            THEN Ok([p EXCEPT !.volume.current_volume = new_volume,
                              !.volume.last_reset = t])
            ELSE Ok(p)

\* ValidationHelpers::check_volume_limit
check_volume_limit(p, amount) ==
  IF p.volume.current_volume + amount > p.volume.daily_limit
    THEN "DailyVolumeLimitExceeded" ELSE "Ok"

\* PoolState::check_rate_limit: roll the window over, then admit and count.
check_rate_limit(p, t) ==
  LET q == IF t >= p.rate_limit.last_reset + p.rate_limit.window_seconds
             THEN [p EXCEPT !.rate_limit.count = 0, !.rate_limit.last_reset = t]
             ELSE p
  IN IF q.rate_limit.count >= q.rate_limit.max_calls
       THEN Fail(p, "RateLimitExceeded")
       ELSE Ok([q EXCEPT !.rate_limit.count = @ + 1])

\* ValidationHelpers::check_circuit_breaker
check_circuit_breaker(p, t) ==
  IF t < p.circuit_breaker.last_trigger + p.circuit_breaker.cooldown
    THEN "CircuitBreakerCooldown" ELSE "Ok"

Max(a, b) == IF a >= b THEN a ELSE b

\* PoolState::enforce_min_fee
enforce_min_fee(fee) == Max(fee, MINIMUM_FEE)

\* The first tier, from index i on, whose threshold is at least the current
\* volume; 0 when there is none.
RECURSIVE first_tier_from(_, _, _)
first_tier_from(tiers, i, volume) ==
  IF i > Len(tiers) THEN 0
  ELSE IF volume <= tiers[i].volume_threshold THEN i
  ELSE first_tier_from(tiers, i + 1, volume)

\* PoolState::calculate_fee: <<fee, fee mode>>.
calculate_fee(p, amount_in, t) ==
  LET pool_age == t - p.pool_start_time
      k == first_tier_from(p.fee_tiers, 1, p.volume.current_volume)
      default_fee_bps == IF is_some(p.default_fee_bps)
                           THEN unwrap(p.default_fee_bps) ELSE MINIMUM_FEE_BPS
  IN IF pool_age < p.trade_settings.early_trade_window_seconds
       THEN << enforce_min_fee((p.trade_settings.early_trade_fee_bps * amount_in) \div 10000), 1 >>
     ELSE IF k # 0
       THEN << enforce_min_fee((p.fee_tiers[k].fee_bps * amount_in) \div 10000), 2 >>
     ELSE << enforce_min_fee((default_fee_bps * amount_in) \div 10000), 0 >>

\* A variant of calculate_price_impact that divides before it multiplies.
calculate_price_impact_dividing_first(amount_in, pool_balance) ==
  IF pool_balance = 0 THEN 0 ELSE (amount_in \div pool_balance) * 10000

\* PoolState::calculate_price_impact, for amounts whose product with 10000
\* fits the integers of the model (it then fits u64 as well, so that
\* checked_mul returns Some; checked_div returns None only for a divisor 0,
\* which the first test has excluded).
calculate_price_impact(amount_in, pool_balance) ==
  IF pool_balance = 0 THEN 0 ELSE (amount_in * 10000) \div pool_balance

\* The same function over the whole of u64.  A u64 that is too large for the
\* integers of the model is written in base 10000, most significant digit
\* first and without leading zero digits, so that << >> is 0.
U64_MAX == << 1844, 6744, 737, 955, 1615 >>

RECURSIVE to_u64(_)
to_u64(n) == IF n = 0 THEN << >> ELSE Append(to_u64(n \div 10000), n % 10000)

u64_lt(x, y) ==
  \/ Len(x) < Len(y)
  \/ /\ Len(x) = Len(y)
     /\ \E i \in 1..Len(x) :
          x[i] < y[i] /\ \A j \in 1..(i - 1) : x[j] = y[j]

\* u64::checked_mul(10000): None when the product exceeds u64::MAX.
checked_mul_10000(x) ==
  LET product == IF x = << >> THEN << >> ELSE Append(x, 0)
  IN IF u64_lt(U64_MAX, product) THEN None ELSE Some(product)

RECURSIVE strip_zeros(_)
strip_zeros(x) ==
  IF x # << >> /\ x[1] = 0 THEN strip_zeros(Tail(x)) ELSE x

\* The digits of x \div d from digit i on, rem being the remainder so far.
RECURSIVE div_from(_, _, _, _)
div_from(x, i, rem, d) ==
  IF i > Len(x) THEN << >>
  ELSE LET cur == rem * 10000 + x[i]
       IN << cur \div d >> \o div_from(x, i + 1, cur % d, d)

\* u64::checked_div by a divisor that fits the integers of the model.
checked_div(x, d) ==
  IF d = 0 THEN None ELSE Some(strip_zeros(div_from(x, 1, 0, d)))

calculate_price_impact_u64(amount_in, pool_balance) ==
  LET product == checked_mul_10000(amount_in)
      impact == checked_div(unwrap(product), pool_balance)
  IN IF pool_balance = 0 THEN [ err |-> "Ok", value |-> << >> ]
     ELSE IF ~is_some(product) THEN [ err |-> "Overflow", value |-> << >> ]
     ELSE IF ~is_some(impact) THEN [ err |-> "Overflow", value |-> << >> ]
     ELSE [ err |-> "Ok", value |-> unwrap(impact) ]

\* The digits of x * f from digit i down, for a factor f of at most 10000,
\* carry being what the digits to the right have carried over.
RECURSIVE mul_from(_, _, _, _)
mul_from(x, i, carry, f) ==
  IF i = 0 THEN to_u64(carry)
  ELSE LET cur == x[i] * f + carry
       IN Append(mul_from(x, i - 1, cur \div 10000, f), cur % 10000)

\* u64::saturating_mul by a small factor: u64::MAX when the product exceeds it.
saturating_mul(x, f) ==
  LET product == strip_zeros(mul_from(x, Len(x), 0, f))
  IN IF u64_lt(U64_MAX, product) THEN U64_MAX ELSE product

\* The new volume of PoolState::decay_volume over the whole of u64, for a
\* number of whole hours above 0.
decayed_volume_u64(current_volume, hours_passed) ==
  LET decay_factor == Max(100 - Min(hours_passed, 24), 0)
  IN unwrap(checked_div(saturating_mul(current_volume, decay_factor), 100))

\* A variant of validate_trade_parameters without the test of is_paused.
validate_trade_parameters_ignoring_pause(p, buyer, amount, t) ==
  IF p.is_emergency_paused THEN Fail(p, "EmergencyPaused")
  ELSE IF ~(amount > 0) THEN Fail(p, "InvalidAmount")
  ELSE IF ~(t > 0) THEN Fail(p, "InvalidTimestamp")
  ELSE IF check_volume_limit(p, amount) # "Ok"
    THEN Fail(p, check_volume_limit(p, amount))
  ELSE IF check_rate_limit(p, t).err # "Ok"
    THEN Fail(p, check_rate_limit(p, t).err)
  ELSE IF check_circuit_breaker(p, t) # "Ok"
    THEN Fail(p, check_circuit_breaker(p, t))
  ELSE IF p.protection.blacklist_enabled /\ buyer \in p.trader_blacklist
    THEN Fail(p, "Unauthorized")
  ELSE Ok(check_rate_limit(p, t).pool)

\* validation::validate_trade_parameters: the pool after the checks (the
\* rate-limit check counts the call) or the first error.
validate_trade_parameters(p, buyer, amount, t) ==
  IF p.is_paused THEN Fail(p, "PoolPaused")
  ELSE IF p.is_emergency_paused THEN Fail(p, "EmergencyPaused")
  ELSE IF ~(amount > 0) THEN Fail(p, "InvalidAmount")
  ELSE IF ~(t > 0) THEN Fail(p, "InvalidTimestamp")
  ELSE IF check_volume_limit(p, amount) # "Ok"
    THEN Fail(p, check_volume_limit(p, amount))
  ELSE IF check_rate_limit(p, t).err # "Ok"
    THEN Fail(p, check_rate_limit(p, t).err)
  ELSE IF check_circuit_breaker(p, t) # "Ok"
    THEN Fail(p, check_circuit_breaker(p, t))
  ELSE IF p.protection.blacklist_enabled /\ buyer \in p.trader_blacklist
    THEN Fail(p, "Unauthorized")
  ELSE Ok(check_rate_limit(p, t).pool)

\* The TradeOutcome that execute_trade returns with Ok.
TradeOutcome(amount_out, fee_amount, fee_mode, price_impact) ==
  [ amount_out |-> amount_out, fee_amount |-> fee_amount,
    fee_mode |-> fee_mode, price_impact |-> price_impact ]

\* What an instruction that returns Ok(()) gives back.
NoOutcome == TradeOutcome(0, 0, 0, 0)

\* A variant of commit_trade that also adds the trade to the tracked volume.
commit_trade_counting_volume(q, amount_in, fee_amount, t) ==
  [q EXCEPT !.total_liquidity = @ + amount_in,
            !.total_fees_collected = @ + fee_amount,
            !.trade_settings.last_trade_time = t,
            !.volume.current_volume = @ + amount_in]

\* execute_trade, "Update pool state": the fields an admitted trade writes.
commit_trade(q, amount_in, fee_amount, t) ==
  [q EXCEPT !.total_liquidity = @ + amount_in,
            !.total_fees_collected = @ + fee_amount,
            !.trade_settings.last_trade_time = t]

\* The result of execute_trade: error, pool and, with Ok, the outcome and
\* the token transfers it made (one: buyer_token_account to
\* pool_token_account).
execute_trade(p, buyer, amount_in, minimum_amount_out, transfer_ok, t) ==
  LET v == validate_trade_parameters(p, buyer, amount_in, t)
      q == v.pool
      fee == calculate_fee(q, amount_in, t)
      fee_amount == fee[1]
      amount_after_fee == amount_in - fee_amount
      price_impact == calculate_price_impact(amount_after_fee, q.total_liquidity)
      amount_out == (amount_after_fee * q.total_liquidity)
                      \div (q.total_liquidity + amount_after_fee)
      done == Ok(commit_trade(q, amount_in, fee_amount, t))
  IN IF v.err # "Ok" THEN Fail(p, v.err)
     ELSE IF amount_after_fee < 0 THEN Fail(p, "Overflow")
     ELSE IF price_impact > q.protection.max_price_impact
       THEN Fail(p, "PriceImpactTooHigh")
     ELSE IF q.total_liquidity + amount_after_fee = 0 THEN Fail(p, "Overflow")
     ELSE IF amount_out < minimum_amount_out THEN Fail(p, "SlippageExceeded")
     ELSE IF token_transfer(transfer_ok) # "Ok"
       THEN Fail(p, token_transfer(transfer_ok))
     ELSE [ err |-> "Ok", pool |-> done.pool,
            outcome |-> TradeOutcome(amount_out, fee_amount, fee[2], price_impact),
            transfers |-> << Transfer(buyer, "pool_token_account", amount_in) >> ]

---------------------------------------------------------------------------
(* The state machine                                                       *)

\* Amounts submitted to add_liquidity, remove_liquidity and execute_trade.
Amounts == {0, 1000}

\* Addresses submitted to the blacklist instructions.
Traders == {"B", "C"}

\* Lists submitted to the batch instructions.
TraderLists == { << >>, << "B" >>, << "C" >>, << "B", "C" >> }

\* last: the instruction committed by the latest step, its signer and its
\* arguments.  A clock step leaves the record of no call.
\* ret is what the instruction returned with Ok.
Call(op, caller, err, bundle, who, amount) ==
  [ op |-> op, caller |-> caller, err |-> err,
    bundle |-> bundle, who |-> who, amount |-> amount, ret |-> NoOutcome ]

NoCall == Call("none", "-", "Ok", NoBundle, {}, 0)

\* hist: what earlier steps did, for the properties that speak of them.
\*   sched_at, sched_bundle: the clock and the bundle of the successful
\*     schedule_parameter_update that stored the pending update (0 and
\*     NoBundle while none is pending);
\*   em_kind, em_at: the kind and the clock of the latest successful
\*     schedule_emergency_pause / schedule_emergency_resume;
\*   flag_at: the clock of the latest change of is_emergency_paused;
\*   admin_at: the clock of the latest change of admin (0: none yet);
\*   replaced: the pending update that the latest step, a
\*     schedule_parameter_update, overwrote (None otherwise);
\*   cancelled: a cancel_parameter_update was committed and no
\*     schedule_parameter_update since;
\*   calls: the number of committed instructions so far;
\*   custody: the balance of the pool's token account, 0 when the pool is
\*     created and moved by the transfers of the committed instructions.
NoHist ==
  [ sched_at |-> 0, sched_bundle |-> NoBundle,
    em_kind |-> "none", em_at |-> 0, flag_at |-> 0, admin_at |-> 0,
    replaced |-> None, cancelled |-> FALSE,
    calls |-> 0, custody |-> 0 ]

\* What the transfers ts, from the i-th on, add to the balance of the
\* pool's token account.
RECURSIVE NetIntoCustody(_, _)
NetIntoCustody(ts, i) ==
  IF i > Len(ts) THEN 0
  ELSE (IF ts[i].to = "pool_token_account" THEN ts[i].amount ELSE 0)
       - (IF ts[i].from = "pool_token_account" THEN ts[i].amount ELSE 0)
       + NetIntoCustody(ts, i + 1)

NextHist(op, b, r) ==
  LET ok == r.err = "Ok" IN
  [ sched_at |->
      IF ~is_some(r.pool.pending_update) THEN 0
      ELSE IF ok /\ op = "schedule_parameter_update" THEN now
      ELSE hist.sched_at,
    sched_bundle |->
      IF ~is_some(r.pool.pending_update) THEN NoBundle
      ELSE IF ok /\ op = "schedule_parameter_update" THEN b
      ELSE hist.sched_bundle,
    em_kind |->
      IF ok /\ op = "schedule_emergency_pause" THEN "pause"
      ELSE IF ok /\ op = "schedule_emergency_resume" THEN "resume"
      ELSE hist.em_kind,
    em_at |->
      IF ok /\ op \in {"schedule_emergency_pause", "schedule_emergency_resume"}
        THEN now ELSE hist.em_at,
    flag_at |->
      IF r.pool.is_emergency_paused # pool.is_emergency_paused
        THEN now ELSE hist.flag_at,
    admin_at |->
      IF r.pool.admin # pool.admin THEN now ELSE hist.admin_at,
    replaced |->
      IF op = "schedule_parameter_update" THEN pool.pending_update ELSE None,
    cancelled |->
      IF op = "cancel_parameter_update" THEN TRUE
      ELSE IF op = "schedule_parameter_update" THEN FALSE
      ELSE hist.cancelled,
    calls |-> hist.calls + 1,
    custody |-> hist.custody + NetIntoCustody(Transfers(r), 1) ]

\* One committed instruction: the handler returned Ok and the runtime
\* commits r.pool.  An instruction whose handler returns an error commits
\* nothing (the runtime discards its writes), so it is no step of the
\* machine: what it returns in a state is the handler applied to that state.
Step(op, caller, b, who, amount, r) ==
  /\ r.err = "Ok"
  /\ hist.calls < MaxCalls
  /\ pool' = r.pool
  /\ last' = [ Call(op, caller, r.err, b, who, amount) EXCEPT
                 !.ret = IF "outcome" \in DOMAIN r THEN r.outcome ELSE @ ]
  /\ hist' = NextHist(op, b, r)
  /\ UNCHANGED now

Init ==
  /\ now = StartTime
  /\ pool = initialize_pool("A", InitParams, StartTime)
  /\ last = NoCall
  /\ hist = NoHist

Tick ==
  \E t \in TimePoints :
    /\ t > now
    /\ now' = t
    /\ last' = NoCall
    /\ hist' = [hist EXCEPT !.replaced = None]
    /\ UNCHANGED pool

AddLiquidity ==
  \E c \in Users, amount \in Amounts, transfer_ok \in BOOLEAN :
    /\ pool.total_liquidity + amount <= MaxLiquidity
    /\ Step("add_liquidity", c, NoBundle, {}, amount,
            add_liquidity(pool, c, amount, transfer_ok, now))

RemoveLiquidity ==
  \E c \in Users, amount \in Amounts :
    Step("remove_liquidity", c, NoBundle, {}, amount,
         remove_liquidity(pool, c, amount, now))

ExecuteTrade ==
  \E c \in Users, amount \in Amounts, transfer_ok \in BOOLEAN :
    /\ pool.total_liquidity + amount <= MaxLiquidity
    /\ Step("execute_trade", c, NoBundle, {}, amount,
            execute_trade(pool, c, amount, 0, transfer_ok, now))

BlacklistTrader ==
  \E c \in Users, trader \in Traders :
    Step("blacklist_trader", c, NoBundle, {trader}, 0,
         blacklist_trader(pool, c, trader, now))

RemoveFromBlacklist ==
  \E c \in Users, trader \in Traders :
    Step("remove_from_blacklist", c, NoBundle, {trader}, 0,
         remove_from_blacklist(pool, c, trader, now))

BatchBlacklistTraders ==
  \E c \in Users, traders \in TraderLists :
    Step("batch_blacklist_traders", c, NoBundle, Range(traders), 0,
         batch_blacklist_traders(pool, c, traders, now))

BatchUnblacklistTraders ==
  \E c \in Users, traders \in TraderLists :
    Step("batch_unblacklist_traders", c, NoBundle, Range(traders), 0,
         batch_unblacklist_traders(pool, c, traders, now))

WithdrawFees ==
  \E c \in Users, transfer_ok \in BOOLEAN :
    Step("withdraw_fees", c, NoBundle, {}, 0,
         withdraw_fees(pool, c, transfer_ok, now))

LockFeeTiers ==
  \E c \in Users :
    Step("lock_fee_tiers", c, NoBundle, {}, 0, lock_fee_tiers(pool, c, now))

UnlockFeeTiers ==
  \E c \in Users :
    Step("unlock_fee_tiers", c, NoBundle, {}, 0, unlock_fee_tiers(pool, c, now))

ScheduleParameterUpdate ==
  \E c \in Users, b \in Bundles :
    Step("schedule_parameter_update", c, b, {}, 0,
         schedule_parameter_update(pool, c, b, now))

CancelParameterUpdate ==
  \E c \in Users :
    Step("cancel_parameter_update", c, NoBundle, {}, 0,
         cancel_parameter_update(pool, c, now))

ApplyParameterUpdate ==
  \E c \in Users :
    Step("apply_parameter_update", c, NoBundle, {}, 0,
         apply_parameter_update(pool, c, now))

ResetPendingUpdate ==
  \E c \in Users :
    Step("reset_pending_update", c, NoBundle, {}, 0,
         reset_pending_update(pool, c, now))

ScheduleEmergencyPause ==
  \E c \in Users :
    Step("schedule_emergency_pause", c, NoBundle, {}, 0,
         schedule_emergency_pause(pool, c, now))

ApplyEmergencyPause ==
  \E c \in Users :
    Step("apply_emergency_pause", c, NoBundle, {}, 0,
         apply_emergency_pause(pool, c, now))

ScheduleEmergencyResume ==
  \E c \in Users :
    Step("schedule_emergency_resume", c, NoBundle, {}, 0,
         schedule_emergency_resume(pool, c, now))

ApplyEmergencyResume ==
  \E c \in Users :
    Step("apply_emergency_resume", c, NoBundle, {}, 0,
         apply_emergency_resume(pool, c, now))

ResetCircuitBreaker ==
  \E c \in Users :
    Step("reset_circuit_breaker", c, NoBundle, {}, 0,
         reset_circuit_breaker(pool, c, now))

UpdateAdmin ==
  \E c \in Users, new_admin \in Users :
    Step("update_admin", c, NoBundle, {new_admin}, 0,
         update_admin(pool, c, new_admin, now))

TogglePause ==
  \E c \in Users :
    Step("toggle_pause", c, NoBundle, {}, 0, toggle_pause(pool, c, now))

Next ==
  \/ Tick
  \/ AddLiquidity
  \/ RemoveLiquidity
  \/ ExecuteTrade
  \/ BlacklistTrader
  \/ RemoveFromBlacklist
  \/ BatchBlacklistTraders
  \/ BatchUnblacklistTraders
  \/ WithdrawFees
  \/ LockFeeTiers
  \/ UnlockFeeTiers
  \/ ScheduleParameterUpdate
  \/ CancelParameterUpdate
  \/ ApplyParameterUpdate
  \/ ResetPendingUpdate
  \/ ScheduleEmergencyPause
  \/ ApplyEmergencyPause
  \/ ScheduleEmergencyResume
  \/ ApplyEmergencyResume
  \/ ResetCircuitBreaker
  \/ UpdateAdmin
  \/ TogglePause

Spec == Init /\ [][Next]_vars

---------------------------------------------------------------------------
(* Properties of the parameter-update timelock                             *)

\* The configuration that a parameter update governs: trade settings,
\* protection settings (with the limits they are copied into) and fee tiers.
Config(p) ==
  [ early_trade_fee_bps        |-> p.trade_settings.early_trade_fee_bps,
    early_trade_window_seconds |-> p.trade_settings.early_trade_window_seconds,
    max_size_bps               |-> p.trade_settings.max_size_bps,
    min_size                   |-> p.trade_settings.min_size,
    cooldown_seconds           |-> p.trade_settings.cooldown_seconds,
    daily_limit                |-> p.volume.daily_limit,
    protection                 |-> p.protection,
    cb_threshold               |-> p.circuit_breaker.threshold,
    cb_window                  |-> p.circuit_breaker.window,
    cb_cooldown                |-> p.circuit_breaker.cooldown,
    rate_limit_window          |-> p.rate_limit.window_seconds,
    rate_limit_max             |-> p.rate_limit.max_calls,
    fee_tiers                  |-> p.fee_tiers ]

\* What apply_parameter_update answers to the admin in the current state.
ApplyByAdmin == apply_parameter_update(pool, pool.admin, now)

\* What cancel_parameter_update answers to the admin in the current state.
CancelByAdmin == cancel_parameter_update(pool, pool.admin, now)

\* C1 as stated: whenever an update is pending, apply_parameter_update
\* called by the admin fails with TimelockNotExpired and changes nothing
\* while the clock is before scheduled_time, and succeeds and clears the
\* pending update once the clock has reached scheduled_time.
C1_AsStated ==
  is_some(pool.pending_update) =>
    LET u == unwrap(pool.pending_update) IN
      /\ now < u.scheduled_time =>
           /\ ApplyByAdmin.err = "TimelockNotExpired"
           /\ ApplyByAdmin.pool = pool
      /\ now >= u.scheduled_time =>
           /\ ApplyByAdmin.err = "Ok"
           /\ ApplyByAdmin.pool.pending_update = None

\* C1, amended: the statement holds while the pool is not emergency-paused;
\* while it is emergency-paused, apply_parameter_update called by the admin
\* fails with EmergencyPaused and changes nothing, before and after
\* scheduled_time.  A committed apply_parameter_update leaves no pending
\* update.
C1_ApplyAfterTimelock ==
  /\ is_some(pool.pending_update) =>
       LET u == unwrap(pool.pending_update) IN
         /\ ~pool.is_emergency_paused /\ now < u.scheduled_time =>
              /\ ApplyByAdmin.err = "TimelockNotExpired"
              /\ ApplyByAdmin.pool = pool
         /\ ~pool.is_emergency_paused /\ now >= u.scheduled_time =>
              /\ ApplyByAdmin.err = "Ok"
              /\ ApplyByAdmin.pool.pending_update = None
         /\ pool.is_emergency_paused =>
              /\ ApplyByAdmin.err = "EmergencyPaused"
              /\ ApplyByAdmin.pool = pool
  /\ last.op = "apply_parameter_update" => pool.pending_update = None

\* An apply_parameter_update committed at the very second the timelock of
\* an update scheduled at the start time elapsed.
C1_Witness ==
  /\ last.op = "apply_parameter_update"
  /\ now = StartTime + PARAMETER_UPDATE_TIMELOCK
  /\ pool.pending_update = None

\* C2: a step changes the configuration only if it is an
\* apply_parameter_update of an update that a schedule_parameter_update
\* stored at least PARAMETER_UPDATE_TIMELOCK seconds earlier, and the new
\* configuration is the one the scheduled bundle prescribes.
C2_ConfigOnlyByApply ==
  [][ Config(pool') # Config(pool) =>
        /\ last'.op = "apply_parameter_update"
        /\ is_some(pool.pending_update)
        /\ hist.sched_at > 0
        /\ now >= hist.sched_at + PARAMETER_UPDATE_TIMELOCK
        /\ Config(pool') =
             Config(apply_fee_settings(
                      apply_protection_settings(
                        apply_trade_settings(pool, hist.sched_bundle.trade_settings),
                        hist.sched_bundle.protection_settings),
                      hist.sched_bundle.fee_settings)) ]_vars

\* A committed apply_parameter_update after which the configuration is not
\* the one the pool was initialised with.
C2_Witness ==
  /\ last.op = "apply_parameter_update"
  /\ Config(pool) # Config(initialize_pool("A", InitParams, StartTime))

\* C3: the pool holds at most one pending update; right after a committed
\* schedule_parameter_update the pending update is exactly the submitted
\* bundle, nothing of a replaced update surviving, with scheduled_time the
\* clock of the call plus PARAMETER_UPDATE_TIMELOCK.
C3_ScheduleOverwrites ==
  /\ Len(pool.pending_update) <= 1
  /\ last.op = "schedule_parameter_update" =>
       pool.pending_update =
         Some(PendingUpdate(now + PARAMETER_UPDATE_TIMELOCK, last.bundle))

\* A schedule_parameter_update that replaced a pending update carrying
\* trade settings by a bundle without any, at a later clock.
C3_Witness ==
  /\ last.op = "schedule_parameter_update"
  /\ is_some(hist.replaced)
  /\ is_some(unwrap(hist.replaced).trade_settings)
  /\ ~is_some(unwrap(pool.pending_update).trade_settings)
  /\ unwrap(pool.pending_update).scheduled_time
       > unwrap(hist.replaced).scheduled_time

\* C4 as stated: cancel_parameter_update called by the admin fails with
\* NoPendingUpdate when no update is pending; otherwise it clears the
\* pending update and applies none of it; and as long as no new update is
\* scheduled after a cancel, apply_parameter_update fails with
\* NoPendingUpdate.
C4_AsStated ==
  /\ ~is_some(pool.pending_update) =>
       /\ CancelByAdmin.err = "NoPendingUpdate"
       /\ CancelByAdmin.pool = pool
  /\ is_some(pool.pending_update) =>
       /\ CancelByAdmin.err = "Ok"
       /\ CancelByAdmin.pool = [pool EXCEPT !.pending_update = None]
  /\ hist.cancelled =>
       /\ ~is_some(pool.pending_update)
       /\ ApplyByAdmin.err = "NoPendingUpdate"

\* C4, amended: the statement holds while the pool is not emergency-paused;
\* while it is emergency-paused, cancel_parameter_update and
\* apply_parameter_update called by the admin fail with EmergencyPaused and
\* change nothing.  After a cancel no update is pending until the next
\* schedule.
C4_CancelClears ==
  /\ ~pool.is_emergency_paused /\ ~is_some(pool.pending_update) =>
       /\ CancelByAdmin.err = "NoPendingUpdate"
       /\ CancelByAdmin.pool = pool
  /\ ~pool.is_emergency_paused /\ is_some(pool.pending_update) =>
       /\ CancelByAdmin.err = "Ok"
       /\ CancelByAdmin.pool = [pool EXCEPT !.pending_update = None]
  /\ pool.is_emergency_paused =>
       /\ CancelByAdmin.err = "EmergencyPaused"
       /\ CancelByAdmin.pool = pool
  /\ hist.cancelled =>
       /\ ~is_some(pool.pending_update)
       /\ ApplyByAdmin.pool = pool
       /\ ApplyByAdmin.err =
            IF pool.is_emergency_paused THEN "EmergencyPaused"
            ELSE "NoPendingUpdate"

\* A committed cancel_parameter_update, once the timelock of the update it
\* cancelled could have elapsed.
C4_Witness ==
  /\ last.op = "cancel_parameter_update"
  /\ hist.cancelled
  /\ now >= StartTime + PARAMETER_UPDATE_TIMELOCK
  /\ ApplyByAdmin.err = "NoPendingUpdate"

---------------------------------------------------------------------------
(* Properties of the emergency timelock                                    *)

\* What the two emergency apply instructions answer to the emergency admin
\* in the current state.
EmergencyApplies ==
  { apply_emergency_pause(pool, pool.emergency_admin, now),
    apply_emergency_resume(pool, pool.emergency_admin, now) }

\* C5: with no emergency action scheduled (emergency_action_scheduled_time
\* zero), or before the scheduled time, apply_emergency_pause and
\* apply_emergency_resume fail and leave is_emergency_paused unchanged.
C5_ApplyNeedsSchedule ==
  \A r \in EmergencyApplies :
    (pool.emergency_action_scheduled_time = 0
       \/ now < pool.emergency_action_scheduled_time) =>
      /\ r.err # "Ok"
      /\ r.pool.is_emergency_paused = pool.is_emergency_paused

\* C6: a step changes is_emergency_paused only after a schedule call of the
\* matching kind, made at least EMERGENCY_TIMELOCK_SECONDS earlier and not
\* before the previous change of the flag; and an emergency apply leaves
\* the emergency timelock idle (scheduled time zero).
C6_FlagChangeScheduled ==
  [][ /\ pool'.is_emergency_paused # pool.is_emergency_paused =>
           /\ hist.em_kind =
                (IF pool'.is_emergency_paused THEN "pause" ELSE "resume")
           /\ now >= hist.em_at + EMERGENCY_TIMELOCK_SECONDS
           /\ hist.em_at >= hist.flag_at
      /\ last'.op \in {"apply_emergency_pause", "apply_emergency_resume"} =>
           pool'.emergency_action_scheduled_time = 0 ]_vars

\* C7: a step changes is_emergency_paused only if it is an
\* apply_emergency_pause or an apply_emergency_resume.
C7_FlagOnlyByEmergencyOps ==
  [][ pool'.is_emergency_paused # pool.is_emergency_paused =>
        last'.op \in {"apply_emergency_pause", "apply_emergency_resume"} ]_vars

---------------------------------------------------------------------------
(* Properties of the admin role                                            *)

\* What each admin instruction answers to caller c in the current state,
\* over the arguments of the machine.
AdminResults(c) ==
  { add_liquidity(pool, c, a, ok, now) : a \in Amounts, ok \in BOOLEAN }
  \cup { remove_liquidity(pool, c, a, now) : a \in Amounts }
  \cup { blacklist_trader(pool, c, x, now) : x \in Traders }
  \cup { remove_from_blacklist(pool, c, x, now) : x \in Traders }
  \cup { batch_blacklist_traders(pool, c, xs, now) : xs \in TraderLists }
  \cup { batch_unblacklist_traders(pool, c, xs, now) : xs \in TraderLists }
  \cup { withdraw_fees(pool, c, ok, now) : ok \in BOOLEAN }
  \cup { lock_fee_tiers(pool, c, now), unlock_fee_tiers(pool, c, now),
         cancel_parameter_update(pool, c, now),
         apply_parameter_update(pool, c, now),
         reset_circuit_breaker(pool, c, now), toggle_pause(pool, c, now) }
  \cup { schedule_parameter_update(pool, c, b, now) : b \in Bundles }
  \cup { update_admin(pool, c, n, now) : n \in Users }

\* C9: every admin instruction called by anyone but the stored admin fails
\* with Unauthorized and leaves the pool state unchanged.
C9_AdminOnly ==
  \A c \in Users \ {pool.admin} :
    \A r \in AdminResults(c) : r.err = "Unauthorized" /\ r.pool = pool

\* C10: two changes of the admin are never less than ADMIN_UPDATE_COOLDOWN
\* seconds apart.
C10_AdminCooldown ==
  [][ (pool'.admin # pool.admin /\ hist.admin_at # 0) =>
        now >= hist.admin_at + ADMIN_UPDATE_COOLDOWN ]_vars

\* C11: admin and emergency_admin are different identities in every state,
\* and update_admin called by the admin with the current admin or the
\* emergency admin as new_admin fails with InvalidNewAdmin and leaves the
\* admin in place.
C11_DistinctAdmins ==
  /\ pool.admin # pool.emergency_admin
  /\ \A n \in {pool.admin, pool.emergency_admin} :
       LET r == update_admin(pool, pool.admin, n, now) IN
         r.err = "InvalidNewAdmin" /\ r.pool.admin = pool.admin

---------------------------------------------------------------------------
(* Properties of trading                                                   *)

\* Amounts a trade may carry: nothing, the smallest amount, a regular one.
TradeAmounts == {0, 1, 1000}

\* What execute_trade answers in the current state, over buyers, amounts
\* and the outcome of the token transfer.
TradeResults ==
  { execute_trade(pool, c, a, 0, ok, now) :
      c \in Users, a \in TradeAmounts, ok \in BOOLEAN }

\* C12: while is_paused is set every execute_trade fails with PoolPaused,
\* while only is_emergency_paused is set it fails with EmergencyPaused, and
\* in both cases the pool is unchanged; right after a toggle_pause the trade
\* is judged by the new value of is_paused.
C12_PausedRejectsTrades ==
  /\ pool.is_paused =>
       \A r \in TradeResults : r.err = "PoolPaused" /\ r.pool = pool
  /\ (pool.is_emergency_paused /\ ~pool.is_paused) =>
       \A r \in TradeResults : r.err = "EmergencyPaused" /\ r.pool = pool
  /\ (last.op = "toggle_pause" /\ ~pool.is_paused) =>
       \A r \in TradeResults : r.err # "PoolPaused"

\* The state right after a toggle_pause that paused the pool: a trade that
\* nothing else would stop is rejected with PoolPaused.
C12_Witness ==
  /\ last.op = "toggle_pause"
  /\ pool.is_paused
  /\ ~pool.is_emergency_paused
  /\ execute_trade(pool, "B", 1000, 0, TRUE, now).err = "PoolPaused"
  /\ execute_trade([pool EXCEPT !.is_paused = FALSE],
                   "B", 1000, 0, TRUE, now).err = "Ok"

\* count is within max_calls while the window has not rolled over.
RateWithinLimit(p, t) ==
  t < p.rate_limit.last_reset + p.rate_limit.window_seconds =>
    p.rate_limit.count <= p.rate_limit.max_calls

C14_TradeCooldown ==
  (pool.trade_settings.last_trade_time > 0
     /\ now - pool.trade_settings.last_trade_time
          < pool.trade_settings.cooldown_seconds) =>
    \A r \in TradeResults : r.err # "Ok" /\ r.pool = pool

\* C16: the tracked volume is within the daily limit in every state, and
\* stays so after a trade or a parameter update committed from it.
C16_VolumeWithinLimit ==
  /\ pool.volume.current_volume <= pool.volume.daily_limit
  /\ \A a \in TradeAmounts :
       LET r == execute_trade(pool, "B", a, 0, TRUE, now)
       IN r.err = "Ok" =>
            r.pool.volume.current_volume <= r.pool.volume.daily_limit
  /\ ApplyByAdmin.err = "Ok" =>
       ApplyByAdmin.pool.volume.current_volume
         <= ApplyByAdmin.pool.volume.daily_limit

\* A parameter update that lowered the daily limit, applied to a pool that
\* has taken a trade.
C16_Witness ==
  /\ last.op = "apply_parameter_update"
  /\ pool.volume.daily_limit = ProtUpd.max_daily_volume
  /\ pool.trade_settings.last_trade_time > 0
  /\ pool.total_liquidity > ProtUpd.max_daily_volume

\* C17: right after a committed execute_trade the tracked volume holds at
\* least the amount of that trade (the decayed volume plus the amount); a
\* trade whose amount would take the volume over the daily limit fails with
\* DailyVolumeLimitExceeded.
C17_TradeCommitsVolume ==
  /\ last.op = "execute_trade" => pool.volume.current_volume >= last.amount
  /\ \A c \in Users, a \in TradeAmounts :
       (a > 0 /\ ~pool.is_paused /\ ~pool.is_emergency_paused
          /\ pool.volume.current_volume + a > pool.volume.daily_limit) =>
         LET r == execute_trade(pool, c, a, 0, TRUE, now) IN
           r.err = "DailyVolumeLimitExceeded" /\ r.pool = pool

\* C19: every trade of a positive amount that execute_trade accepts is
\* charged a fee of at least MINIMUM_FEE and less than the amount.
C19_FeeBelowAmount ==
  \A c \in Users, a \in TradeAmounts :
    LET r == execute_trade(pool, c, a, 0, TRUE, now) IN
      (a > 0 /\ r.err = "Ok") =>
        /\ MINIMUM_FEE <= r.outcome.fee_amount
        /\ r.outcome.fee_amount < a

\* C20: the amount_out a committed execute_trade returned is its amount_in
\* less the fee; a trade of 1000 at pool_start_time + 100 under the initial
\* settings (early fee 500 bps, window 300 s) is charged 50 and returns 950.
C20_AmountOut ==
  /\ last.op = "execute_trade" =>
       last.ret.amount_out = last.amount - last.ret.fee_amount
  /\ (now <= pool.pool_start_time + 100
        /\ pool.trade_settings.early_trade_fee_bps = 500
        /\ pool.trade_settings.early_trade_window_seconds = 300) =>
       LET r == execute_trade(pool, "B", 1000, 0, TRUE,
                              pool.pool_start_time + 100) IN
         r.err = "Ok" =>
           r.outcome.fee_amount = 50 /\ r.outcome.amount_out = 950

---------------------------------------------------------------------------
(* Properties of the fee tiers                                             *)

\* A fee tier.
Tier(threshold, fee) == [volume_threshold |-> threshold, fee_bps |-> fee]

\* What the design asks of a tier list.
FeeTiersValid(tiers) ==
  /\ Len(tiers) >= 1
  /\ Len(tiers) <= MAX_FEE_TIERS
  /\ \A i \in 1..Len(tiers) :
       /\ tiers[i].fee_bps >= MINIMUM_FEE_BPS
       /\ tiers[i].fee_bps <= MAXIMUM_FEE_BPS
  /\ \A i \in 2..Len(tiers) :
       /\ tiers[i - 1].volume_threshold < tiers[i].volume_threshold
       /\ tiers[i - 1].fee_bps >= tiers[i].fee_bps

\* Tier lists submitted to initialize_pool and schedule_parameter_update:
\* falling fees, equal consecutive fees, rising fees, equal and falling
\* thresholds, fees outside the bounds, one tier more than MAX_FEE_TIERS.
\* Consecutive thresholds are MIN_FEE_TIER_SPACING_BPS apart or more.
TierLists ==
  { << >>,
    << Tier(1000, 100) >>,
    << Tier(1000, 100), Tier(2000, 50) >>,
    << Tier(1000, 100), Tier(2000, 100) >>,
    << Tier(1000, 50), Tier(2000, 100) >>,
    << Tier(1000, 100), Tier(1000, 50) >>,
    << Tier(2000, 100), Tier(1000, 50) >>,
    << Tier(1000, 0) >>,
    << Tier(1000, MAXIMUM_FEE_BPS + 1) >>,
    << Tier(1000, MAXIMUM_FEE_BPS), Tier(2000, MINIMUM_FEE_BPS) >>,
    [ i \in 1..(MAX_FEE_TIERS + 1) |-> Tier(100 * i, 1000 - i) ] }

\* A schedule_parameter_update by the admin that submits the tier list.
ScheduleTiers(tiers) ==
  schedule_parameter_update(
    pool, pool.admin,
    Bundle(None, None,
           Some([fee_tiers |-> tiers, fee_tiers_locked |-> pool.fee_tiers_locked]),
           None),
    now)

\* C21: the stored fee_tiers has between 1 and MAX_FEE_TIERS entries,
\* strictly increasing thresholds, non-increasing fees and every fee within
\* [MINIMUM_FEE_BPS, MAXIMUM_FEE_BPS]; initialize_pool and
\* schedule_parameter_update reject every tier list that breaks one of
\* these and accept the others, lists with equal consecutive fees included.
\* (An empty list in a schedule stands for "no new tiers" and is left out.)
C21_FeeTiersValid ==
  /\ FeeTiersValid(pool.fee_tiers)
  /\ \A tiers \in TierLists :
       (initialize_pool_checks([InitParams EXCEPT !.fee_tiers = tiers]) = "Ok")
         <=> FeeTiersValid(tiers)
  /\ validate_admin_action(pool, pool.admin, now) = "Ok" =>
       \A tiers \in TierLists \ { << >> } :
         (ScheduleTiers(tiers).err = "Ok") <=> FeeTiersValid(tiers)

\* C22: while fee_tiers_locked is set no step changes fee_tiers, and the
\* only step that clears the lock is an apply_parameter_update (an unlock
\* that waited out the 24-hour timelock); unlock_fee_tiers does not clear
\* it at once, and an apply does not replace the tiers of a locked pool.
C22_LockHolds ==
  [][ pool.fee_tiers_locked =>
        /\ pool'.fee_tiers = pool.fee_tiers
        /\ (~pool'.fee_tiers_locked => last'.op = "apply_parameter_update")
    ]_vars

---------------------------------------------------------------------------
(* Properties of the blacklist                                             *)

\* Amounts of the trades that blacklisted addresses attempt.
BlacklistedAmounts == {1, 100, 1000}

\* C23: a trade attempted by a member of trader_blacklist fails with
\* TraderBlacklisted for every amount, with protection.blacklist_enabled
\* set or clear, and changes nothing.
C23_BlacklistedCannotTrade ==
  \A x \in pool.trader_blacklist, a \in BlacklistedAmounts, e \in BOOLEAN :
    LET p == [pool EXCEPT !.protection.blacklist_enabled = e]
        r == execute_trade(p, x, a, 0, TRUE, now)
    IN r.err = "TraderBlacklisted" /\ r.pool = p

\* The blacklist instructions can change the blacklist (the protection
\* setting blacklist_enabled is on and no instruction is in flight).
BlacklistOpen == pool.protection.blacklist_enabled /\ ~pool.is_locked

\* C24: a blacklist add, single or batch, fails with
\* TraderAlreadyBlacklisted when a submitted address is already a member,
\* a remove fails with TraderNotBlacklisted when a submitted address is
\* absent, and the failing call leaves trader_blacklist as it was.
C24_BlacklistMembershipErrors ==
  BlacklistOpen =>
    /\ \A x \in Traders :
         LET add == blacklist_trader(pool, pool.admin, x, now)
             rem == remove_from_blacklist(pool, pool.admin, x, now)
         IN /\ x \in pool.trader_blacklist =>
                 add.err = "TraderAlreadyBlacklisted" /\ add.pool = pool
            /\ x \notin pool.trader_blacklist =>
                 rem.err = "TraderNotBlacklisted" /\ rem.pool = pool
    /\ \A xs \in TraderLists :
         LET add == batch_blacklist_traders(pool, pool.admin, xs, now)
             rem == batch_unblacklist_traders(pool, pool.admin, xs, now)
         IN /\ Range(xs) \cap pool.trader_blacklist # {} =>
                 add.err = "TraderAlreadyBlacklisted" /\ add.pool = pool
            /\ Range(xs) \ pool.trader_blacklist # {} =>
                 rem.err = "TraderNotBlacklisted" /\ rem.pool = pool

\* C25: neither the admin nor the emergency admin is a member of
\* trader_blacklist; an add that contains either fails with InvalidTrader,
\* and an update_admin does not make a blacklisted address the admin.
C25_AdminsNeverBlacklisted ==
  /\ pool.admin \notin pool.trader_blacklist
  /\ pool.emergency_admin \notin pool.trader_blacklist
  /\ BlacklistOpen =>
       \A x \in {pool.admin, pool.emergency_admin} :
         /\ blacklist_trader(pool, pool.admin, x, now).err = "InvalidTrader"
         /\ batch_blacklist_traders(pool, pool.admin, << "B", x >>, now).err
              = "InvalidTrader"
  /\ \A x \in Users :
       LET r == update_admin(pool, pool.admin, x, now)
       IN r.err = "Ok" => r.pool.admin \notin r.pool.trader_blacklist

---------------------------------------------------------------------------
(* The instructions that move tokens, with the parameter updates that      *)
(* change their limits                                                     *)

NextTrade ==
  \/ Tick
  \/ AddLiquidity
  \/ RemoveLiquidity
  \/ ExecuteTrade
  \/ WithdrawFees
  \/ TogglePause
  \/ ScheduleParameterUpdate
  \/ ApplyParameterUpdate

SpecTrade == Init /\ [][NextTrade]_vars

---------------------------------------------------------------------------
(* Properties of the instructions as a whole                               *)

\* The pool as a nested call finds it while a guarded instruction is in
\* flight.
InFlight == [pool EXCEPT !.is_locked = TRUE]

\* What the state-mutating instructions answer when they are entered on
\* the pool q by the admin (trades: by B).
Entered(q) ==
  { execute_trade(q, "B", 1000, 0, TRUE, now),
    add_liquidity(q, q.admin, 1000, TRUE, now),
    remove_liquidity(q, q.admin, 1000, now),
    withdraw_fees(q, q.admin, TRUE, now),
    blacklist_trader(q, q.admin, "B", now),
    remove_from_blacklist(q, q.admin, "B", now),
    batch_blacklist_traders(q, q.admin, << "B", "C" >>, now),
    batch_unblacklist_traders(q, q.admin, << "B", "C" >>, now),
    schedule_parameter_update(q, q.admin, Bundle(Some(TradeUpd), None, None, None), now),
    apply_parameter_update(q, q.admin, now),
    lock_fee_tiers(q, q.admin, now),
    update_admin(q, q.admin, "C", now),
    toggle_pause(q, q.admin, now) }

\* C27: every state-mutating instruction entered while is_locked is set
\* fails with ReentrancyDetected and changes nothing, and is_locked is
\* clear after every instruction, committed or failed.
C27_ReentrancyGuarded ==
  /\ ~pool.is_locked
  /\ \A r \in Entered(pool) : ~r.pool.is_locked
  /\ \A r \in Entered(InFlight) :
       r.err = "ReentrancyDetected" /\ r.pool = InFlight

\* What the instructions that move tokens answer when the token program
\* refuses the transfer (an instruction that fails before its transfer
\* fails in the same way when the transfer would have gone through).
RefusedTransfers ==
  { execute_trade(pool, "B", a, 0, FALSE, now) : a \in TradeAmounts }
  \cup { add_liquidity(pool, pool.admin, 1000, FALSE, now),
         withdraw_fees(pool, pool.admin, FALSE, now) }

C29_TwoTransfers ==
  \A a \in TradeAmounts :
    LET r == execute_trade(pool, "B", a, 0, TRUE, now)
    IN r.err = "Ok" =>
         Transfers(r) =
           << Transfer("B", "pool_token_account", a),
              Transfer("pool_token_account", "B", r.outcome.amount_out) >>

---------------------------------------------------------------------------
(* Volume decay on its own                                                 *)

\* decay_volume is a method of PoolState that no instruction calls: it is
\* exercised by a machine of its own, which starts from a pool with some
\* tracked volume and some last_reset and calls it at later clock values.

\* Tracked volumes, clock offsets of the calls and of the initial last_reset.
DecayVolumes == {0, 1, 99, 100, 101, 1000, 2500, 5000}
DecayOffsets == {0, 1800, 3599, 3600, 5400, 7199, 7200, 90000}
DecayTimes == { StartTime + o : o \in DecayOffsets }
DecayResets == { StartTime, StartTime + 1800, StartTime + 3600 }

InitDecay ==
  /\ now = StartTime
  /\ pool \in { [ initialize_pool("A", InitParams, StartTime) EXCEPT
                    !.volume.current_volume = v, !.volume.last_reset = lr ] :
                v \in DecayVolumes, lr \in DecayResets }
  /\ last = NoCall
  /\ hist = NoHist

\* One call of decay_volume that returned Ok, at a clock value not before
\* the current one.
DecayVolume ==
  \E t \in DecayTimes :
    /\ t >= now
    /\ decay_volume(pool, t).err = "Ok"
    /\ pool' = decay_volume(pool, t).pool
    /\ now' = t
    /\ last' = Call("decay_volume", "-", "Ok", NoBundle, {}, 0)
    /\ UNCHANGED hist

NextDecay == DecayVolume

SpecDecay == InitDecay /\ [][NextDecay]_vars

\* C18: in every state, as first given or as left by a call of decay_volume,
\* a call at a time less than 3600 s after last_reset changes neither
\* current_volume nor last_reset.
C18_DecayIdempotentWithinHour ==
  \A t2 \in DecayTimes :
    (t2 >= now /\ t2 - pool.volume.last_reset < 3600) =>
      decay_volume(pool, t2).pool = pool

\* A call that decayed a nonzero volume and moved last_reset to its clock
\* value, with a later clock value still within the hour.
C18_Witness ==
  /\ last.op = "decay_volume"
  /\ pool.volume.last_reset = now
  /\ now > StartTime
  /\ pool.volume.current_volume > 0
  /\ \E t2 \in DecayTimes : t2 > now /\ t2 - pool.volume.last_reset < 3600

---------------------------------------------------------------------------
(* The blacklist on its own, with as many addresses as its bounds need     *)

\* Addresses are numbered; the blacklist of this specification holds the
\* addresses 1..k.  Addresses(from, n) is the list from+1, ..., from+n.
Addresses(from, n) == [ i \in 1..n |-> from + i ]

\* Lengths of the submitted lists.
BatchSizes == {1, 7, BATCH_BLACKLIST_MAX_SIZE}

\* The pool after a parameter update that enabled the blacklist.
InitBlacklist ==
  /\ now = StartTime + PARAMETER_UPDATE_TIMELOCK
  /\ pool = apply_protection_settings(
              initialize_pool("A", InitParams, StartTime), Some(ProtUpd))
  /\ last = NoCall
  /\ hist = NoHist

\* A committed blacklist instruction.
BlacklistStep(op, n, r) ==
  /\ r.err = "Ok"
  /\ pool' = r.pool
  /\ last' = Call(op, pool.admin, r.err, NoBundle, {}, n)
  /\ UNCHANGED <<now, hist>>

\* New addresses, or (overlap = 1) the latest member again and new ones.
BatchBlacklist ==
  \E n \in BatchSizes, overlap \in {0, 1} :
    LET k == Cardinality(pool.trader_blacklist)
        from == IF k >= overlap THEN k - overlap ELSE k
    IN BlacklistStep("batch_blacklist_traders", n,
         batch_blacklist_traders(pool, pool.admin, Addresses(from, n), now))

BatchUnblacklist ==
  \E n \in BatchSizes :
    LET k == Cardinality(pool.trader_blacklist)
    IN /\ k >= n
       /\ BlacklistStep("batch_unblacklist_traders", n,
            batch_unblacklist_traders(pool, pool.admin, Addresses(k - n, n), now))

BlacklistOne ==
  LET k == Cardinality(pool.trader_blacklist)
  IN BlacklistStep("blacklist_trader", 1,
       blacklist_trader(pool, pool.admin, k + 1, now))

UnblacklistOne ==
  LET k == Cardinality(pool.trader_blacklist)
  IN /\ k >= 1
     /\ BlacklistStep("remove_from_blacklist", 1,
          remove_from_blacklist(pool, pool.admin, k, now))

NextBlacklist ==
  \/ BatchBlacklist
  \/ BatchUnblacklist
  \/ BlacklistOne
  \/ UnblacklistOne

SpecBlacklist == InitBlacklist /\ [][NextBlacklist]_vars

\* C26: trader_blacklist never has more than MAX_BLACKLIST_SIZE members,
\* and an add or a remove that submits more than BATCH_BLACKLIST_MAX_SIZE
\* addresses (new ones, or members) is rejected and changes nothing.
C26_BlacklistBounds ==
  LET k == Cardinality(pool.trader_blacklist)
      froms == {k} \cup (IF k > BATCH_BLACKLIST_MAX_SIZE
                           THEN {k - BATCH_BLACKLIST_MAX_SIZE - 1} ELSE {})
  IN /\ k <= MAX_BLACKLIST_SIZE
     /\ \A from \in froms :
          LET xs == Addresses(from, BATCH_BLACKLIST_MAX_SIZE + 1)
              add == batch_blacklist_traders(pool, pool.admin, xs, now)
              rem == batch_unblacklist_traders(pool, pool.admin, xs, now)
          IN /\ add.err # "Ok" /\ add.pool = pool
             /\ rem.err # "Ok" /\ rem.pool = pool

\* The blacklist is full: one more address is refused.
C26_Witness ==
  /\ Cardinality(pool.trader_blacklist) = MAX_BLACKLIST_SIZE
  /\ last.op = "batch_blacklist_traders"
  /\ blacklist_trader(pool, pool.admin, MAX_BLACKLIST_SIZE + 1, now).err
       = "TooManyFeeTiers"

---------------------------------------------------------------------------
(* The price impact on its own                                             *)

\* calculate_price_impact is exercised by trades against pools whose
\* liquidity and whose max_price_impact are drawn from small sets: the pool
\* is the one initialize_pool creates with that max_price_impact_bps, after
\* an add_liquidity of that amount by the admin.
ImpactLimits == {0, 500, 10000}
ImpactLiquidity == {0, 3, 1000, 2000, 30000}
ImpactAmounts == {1, 50, 100, 1000}

ImpactPool(limit, liquidity) ==
  LET p == initialize_pool("A", [InitParams EXCEPT !.max_price_impact_bps = limit],
                           StartTime)
  IN IF liquidity = 0 THEN p
     ELSE add_liquidity(p, "A", liquidity, TRUE, StartTime).pool

InitImpact ==
  /\ now = StartTime
  /\ pool \in { ImpactPool(m, l) : m \in ImpactLimits, l \in ImpactLiquidity }
  /\ last = NoCall
  /\ hist = NoHist

\* One execute_trade by "B" that returned Ok.
TradeWithImpact ==
  \E amount \in ImpactAmounts :
    Step("execute_trade", "B", NoBundle, {}, amount,
         execute_trade(pool, "B", amount, 0, TRUE, now))

NextImpact == Tick \/ TradeWithImpact

SpecImpact == InitImpact /\ [][NextImpact]_vars

\* Balances the function is called with besides the pool's own liquidity,
\* and amounts around the largest u64 whose product with 10000 is a u64.
ImpactBalances == {0, 1, 3, 7, 1000, 10000}
LargestScalable == << 1844, 6744, 737, 955 >>
WideAmounts ==
  { << 1, 0, 0, 0 >>, LargestScalable, << 1844, 6744, 737, 956 >>,
    << 1, 0, 0, 0, 0 >>, U64_MAX }

\* C30: calculate_price_impact(amount_in, pool_balance) is 0 for a
\* pool_balance of 0 and otherwise the quotient of amount_in * 10000 by
\* pool_balance rounded down, over the integers of the model and over u64
\* alike; over u64 it is Overflow exactly when amount_in * 10000 exceeds
\* u64::MAX and pool_balance is not 0.  execute_trade returns
\* PriceImpactTooHigh exactly when validation passed, the fee does not
\* exceed the amount and the impact of the amount after the fee on
\* total_liquidity is greater than protection.max_price_impact; a trade that
\* returns Ok reports an impact within the limit.
C30_PriceImpact ==
  /\ \A a \in ImpactAmounts \cup {0}, b \in ImpactBalances \cup {pool.total_liquidity} :
       LET q == calculate_price_impact(a, b)
       IN /\ IF b = 0 THEN q = 0
             ELSE q * b <= a * 10000 /\ a * 10000 < (q + 1) * b
          /\ calculate_price_impact_u64(to_u64(a), b)
               = [ err |-> "Ok", value |-> to_u64(q) ]
  /\ \A a \in WideAmounts :
       /\ calculate_price_impact_u64(a, 0) = [ err |-> "Ok", value |-> << >> ]
       /\ \A b \in ImpactBalances \ {0} :
            calculate_price_impact_u64(a, b).err = "Overflow"
              <=> u64_lt(LargestScalable, a)
       /\ ~u64_lt(LargestScalable, a) =>
            /\ calculate_price_impact_u64(a, 1)
                 = [ err |-> "Ok", value |-> Append(a, 0) ]
            /\ calculate_price_impact_u64(a, 10000)
                 = [ err |-> "Ok", value |-> a ]
  /\ \A a \in ImpactAmounts :
       LET r == execute_trade(pool, "B", a, 0, TRUE, now)
           v == validate_trade_parameters(pool, "B", a, now)
           fee_amount == calculate_fee(v.pool, a, now)[1]
       IN /\ r.err = "PriceImpactTooHigh" <=>
               /\ v.err = "Ok"
               /\ fee_amount <= a
               /\ calculate_price_impact(a - fee_amount, pool.total_liquidity)
                    > pool.protection.max_price_impact
          /\ r.err = "Ok" =>
               r.outcome.price_impact <= pool.protection.max_price_impact

\* After a trade with a nonzero impact within the limit, a state in which
\* one amount is refused with PriceImpactTooHigh and another is accepted.
C30_Witness ==
  /\ last.op = "execute_trade"
  /\ last.ret.price_impact > 0
  /\ pool.total_liquidity > 0
  /\ \E a \in ImpactAmounts :
       execute_trade(pool, "B", a, 0, TRUE, now).err = "PriceImpactTooHigh"
  /\ \E a \in ImpactAmounts :
       /\ execute_trade(pool, "B", a, 0, TRUE, now).err = "Ok"
       /\ execute_trade(pool, "B", a, 0, TRUE, now).outcome.price_impact > 0

\* C31: an amount above 0 whose impact on a balance above 0 rounds down to
\* 0 is reported with impact 1; a pool whose max_price_impact is 0 therefore
\* refuses every trade that passed validation and left an amount above 0
\* after the fee, with PriceImpactTooHigh.
C31_ImpactClampedToOne ==
  /\ \A a \in ImpactAmounts, b \in ImpactBalances \cup {pool.total_liquidity} :
       (b > 0 /\ a * 10000 < b) => calculate_price_impact(a, b) = 1
  /\ \A a \in ImpactAmounts \cup {2} :
       LET v == validate_trade_parameters(pool, "B", a, now)
           fee_amount == calculate_fee(v.pool, a, now)[1]
       IN ( /\ pool.protection.max_price_impact = 0
            /\ pool.total_liquidity > 0
            /\ v.err = "Ok"
            /\ fee_amount < a )
          => execute_trade(pool, "B", a, 0, TRUE, now).err = "PriceImpactTooHigh"


---------------------------------------------------------------------------
(* Properties of the fee                                                   *)

\* C32: at the clock value pool_start_time + early_trade_window_seconds
\* the fee of an amount is amount * early_trade_fee_bps / 10000, at least
\* MINIMUM_FEE, with the mode 1 of an early trade, and a trade committed at
\* that clock value reports this fee and mode; one second later the mode
\* is that of a tier (2) or of the fallback (0).
C32_EarlyFeeAtBoundary ==
  LET boundary == pool.pool_start_time
                    + pool.trade_settings.early_trade_window_seconds
  IN now <= boundary =>
       \A a \in TradeAmounts \ {0} :
         LET early == Max((a * pool.trade_settings.early_trade_fee_bps) \div 10000,
                          MINIMUM_FEE)
             r == execute_trade(pool, "B", a, 0, TRUE, boundary)
         IN /\ calculate_fee(pool, a, boundary) = << early, 1 >>
            /\ calculate_fee(pool, a, boundary + 1)[2] \in {0, 2}
            /\ r.err = "Ok" =>
                 r.outcome.fee_amount = early /\ r.outcome.fee_mode = 1


---------------------------------------------------------------------------
(* Properties of the volume decay over the whole of u64                    *)

\* Volumes around the largest u64 whose product with 99 is a u64
\* (186330748219288400), written in base 10000.
WideVolumes ==
  { << 1, 0, 0, 0 >>, << 18, 6330, 7482, 1928, 8400 >>,
    << 18, 6330, 7482, 1928, 8500 >>, << 922, 3372, 368, 5477, 5808 >>,
    U64_MAX }

\* x * f \div 100 computed without a limit on the product.
ExactDecay(x, f) == strip_zeros(div_from(strip_zeros(mul_from(x, Len(x), 0, f)), 1, 0, 100))

\* C33: a call of decay_volume after h > 0 whole hours since last_reset
\* sets current_volume to current_volume * max(0, 100 - min(h, 24)) / 100
\* and last_reset to the clock value of the call, for the volumes of the
\* pool and for every u64 volume alike; a call within the hour changes
\* nothing.
C33_DecayFormula ==
  \A t \in DecayTimes :
    t >= pool.volume.last_reset =>
      LET h == (t - pool.volume.last_reset) \div 3600
          f == Max(0, 100 - Min(h, 24))
          r == decay_volume(pool, t)
      IN /\ r.err = "Ok"
         /\ h = 0 => r.pool = pool
         /\ h > 0 =>
              /\ r.pool = [pool EXCEPT
                             !.volume.current_volume = (@ * f) \div 100,
                             !.volume.last_reset = t]
              /\ \A v \in WideVolumes \cup {to_u64(pool.volume.current_volume)} :
                   decayed_volume_u64(v, h) = ExactDecay(v, f)


\* C34: a call of decay_volume 86400 s or more after last_reset leaves a
\* current_volume of 0, whatever the volume was.
C34_FullResetAfterDay ==
  \A t \in DecayTimes :
    t - pool.volume.last_reset >= 86400 =>
      /\ decay_volume(pool, t).err = "Ok"
      /\ decay_volume(pool, t).pool.volume.current_volume = 0


---------------------------------------------------------------------------
(* The reset of the circuit breaker on its own                             *)

\* No instruction writes a nonzero circuit_breaker.last_trigger or
\* volume.current_volume, so reset_circuit_breaker is exercised on pool
\* accounts that hold some tracked volume and some last_trigger.
BreakerVolumes == {0, 100, 2500}
BreakerTriggers == {0, StartTime - 3600, StartTime - 1800, StartTime}

InitBreaker ==
  /\ now = StartTime
  /\ pool \in { [ initialize_pool("A", InitParams, StartTime) EXCEPT
                    !.volume.current_volume = v,
                    !.circuit_breaker.last_trigger = lt ] :
                v \in BreakerVolumes, lt \in BreakerTriggers }
  /\ last = NoCall
  /\ hist = NoHist

NextBreaker == Tick \/ ResetCircuitBreaker \/ AddLiquidity

SpecBreaker == InitBreaker /\ [][NextBreaker]_vars

---------------------------------------------------------------------------
(* Properties of the settings as applied                                   *)

\* C36: an apply_parameter_update whose pending bundle would leave
\* circuit_breaker.window below circuit_breaker.cooldown fails and changes
\* nothing, and after every committed apply_parameter_update
\* circuit_breaker.window >= circuit_breaker.cooldown.
C36_WindowCoversCooldown ==
  /\ last.op = "apply_parameter_update" =>
       pool.circuit_breaker.window >= pool.circuit_breaker.cooldown
  /\ \A c \in Users :
       LET r == apply_parameter_update(pool, c, now)
       IN /\ r.err = "Ok" =>
               r.pool.circuit_breaker.window >= r.pool.circuit_breaker.cooldown
          /\ ( /\ is_some(pool.pending_update)
               /\ is_some(unwrap(pool.pending_update).protection_settings)
               /\ LET s == unwrap(unwrap(pool.pending_update).protection_settings)
                  IN s.circuit_breaker_window < s.circuit_breaker_cooldown )
             => r.err # "Ok" /\ r.pool = pool


---------------------------------------------------------------------------
(* Properties of the liquidity                                             *)

\* C37: pool_start_time is 0 in the pool that initialize_pool leaves; a
\* step changes it only if it was 0, the step is an add_liquidity, and the
\* new value is the clock value of the call.
C37_StartTimeSetOnce ==
  /\ pool.pool_start_time = 0
  /\ [][ pool'.pool_start_time # pool.pool_start_time =>
           /\ pool.pool_start_time = 0
           /\ last'.op = "add_liquidity"
           /\ pool'.pool_start_time = now
       ]_vars


\* C38: a remove_liquidity by the admin (the pool not being
\* emergency-paused) fails with InvalidAmount for the amount 0 and with
\* InsufficientLiquidity for an amount above total_liquidity, changing
\* nothing; otherwise it returns Ok, lowers total_liquidity by the amount
\* and transfers the amount from the pool's token account to the admin.
C38_RemoveLiquidity ==
  ~pool.is_emergency_paused =>
    \A a \in {0, 1, 1000, pool.total_liquidity, pool.total_liquidity + 1} :
      LET r == remove_liquidity(pool, pool.admin, a, now)
      IN IF a = 0 THEN r.err = "InvalidAmount" /\ r.pool = pool
         ELSE IF a > pool.total_liquidity
           THEN r.err = "InsufficientLiquidity" /\ r.pool = pool
         ELSE /\ r.err = "Ok"
              /\ r.pool.total_liquidity = pool.total_liquidity - a
              /\ Transfers(r) = << Transfer("pool_token_account", pool.admin, a) >>


---------------------------------------------------------------------------
(* Properties of the emergency pause                                       *)

\* The results, in the current state, of the instructions that begin with
\* validate_admin_action, called by c.
GuardedResults(c) ==
  { add_liquidity(pool, c, a, ok, now) : a \in Amounts, ok \in BOOLEAN }
  \cup { remove_liquidity(pool, c, a, now) : a \in Amounts }
  \cup { withdraw_fees(pool, c, ok, now) : ok \in BOOLEAN }
  \cup { schedule_parameter_update(pool, c, b, now) : b \in Bundles }
  \cup { update_admin(pool, c, n, now) : n \in Users }
  \cup { lock_fee_tiers(pool, c, now), unlock_fee_tiers(pool, c, now),
         cancel_parameter_update(pool, c, now),
         apply_parameter_update(pool, c, now),
         reset_pending_update(pool, c, now),
         reset_circuit_breaker(pool, c, now), toggle_pause(pool, c, now) }

\* C39: while is_emergency_paused is set, every instruction that begins
\* with validate_admin_action fails and leaves the pool unchanged, with
\* EmergencyPaused when the admin calls it; and no step between two
\* emergency-paused states changes pending_update.
C39_EmergencyPauseBlocksAdmin ==
  /\ [] ( pool.is_emergency_paused =>
            \A c \in Users : \A r \in GuardedResults(c) :
              /\ r.err # "Ok"
              /\ r.pool = pool
              /\ c = pool.admin => r.err = "EmergencyPaused" )
  /\ [][ pool.is_emergency_paused /\ pool'.is_emergency_paused =>
           pool'.pending_update = pool.pending_update ]_vars

\* An emergency-paused pool that holds a pending update whose timelock has
\* expired.
C39_Witness ==
  /\ pool.is_emergency_paused
  /\ is_some(pool.pending_update)
  /\ timelock_expired(now, unwrap(pool.pending_update).scheduled_time)
  /\ apply_parameter_update(pool, pool.admin, now).err = "EmergencyPaused"
  /\ cancel_parameter_update(pool, pool.admin, now).err = "EmergencyPaused"


\* C40: in every reachable state total_liquidity is at most the balance of
\* the pool's token account.
C40_LiquidityBacked == pool.total_liquidity <= hist.custody

=============================================================================
